---- MODULE Spec2Model ----
(***************************************************************************)
(* Model of the career-roadmap retrieval pipeline of the backend:          *)
(*   utils/career_retriever.py  CareerRetriever (FAISS index + manifest)   *)
(*   agents/career_scraper.py   CareerScraper.save_scraped_data            *)
(*   agents/career_agent.py     RoadmapAgent (load-or-build, roadmap)      *)
(*   main.py                    get_roadmap endpoint                       *)
(*                                                                         *)
(* Text is a sequence of symbols.  "NL" is the newline character, " " the  *)
(* space, "D" stands for the marker line ---DOCUMENT_SEPARATOR--- and the  *)
(* other symbols are ordinary characters.                                  *)
(***************************************************************************)
EXTENDS Integers, Sequences, FiniteSets, TLC

\* ---------------------------------------------------------------- bounds
MaxK == 3

\* ------------------------------------------------------- program settings
\* get_settings reads them from the environment; the values are scaled to the
\* length of the texts of the model (the defaults are 1000, 200 and 5)
CHUNK_SIZE == 7
CHUNK_OVERLAP == 2
TOP_K_RESULTS == 3

\* ------------------------------------------------------------ text basics
Whitespace == {" ", "NL"}

RECURSIVE LStrip(_)
LStrip(t) ==
    IF t # <<>> /\ Head(t) \in Whitespace THEN LStrip(Tail(t)) ELSE t

RECURSIVE RStrip(_)
RStrip(t) ==
    IF t # <<>> /\ t[Len(t)] \in Whitespace
    THEN RStrip(SubSeq(t, 1, Len(t) - 1)) ELSE t

\* str.strip()
Strip(t) == RStrip(LStrip(t))

\* least position >= 1 at which p occurs in t, 0 when it does not occur
IndexOf(t, p) ==
    LET hits == {i \in 1..(Len(t) - Len(p) + 1) : SubSeq(t, i, i + Len(p) - 1) = p}
    IN  IF hits = {} THEN 0 ELSE CHOOSE i \in hits : \A j \in hits : i <= j

\* str.split(sep) for a non-empty sep
RECURSIVE PySplit(_, _)
PySplit(t, sep) ==
    LET i == IndexOf(t, sep)
    IN  IF i = 0 THEN <<t>>
        ELSE <<SubSeq(t, 1, i - 1)>> \o PySplit(SubSeq(t, i + Len(sep), Len(t)), sep)

\* sep.join(parts)
RECURSIVE PyJoin(_, _)
PyJoin(parts, sep) ==
    IF parts = <<>> THEN <<>>
    ELSE IF Len(parts) = 1 THEN parts[1]
    ELSE parts[1] \o sep \o PyJoin(Tail(parts), sep)

\* list[idx] of Python for idx < len(list): a negative idx counts from the end
PyItem(list, idx) == IF idx >= 0 THEN list[idx + 1] ELSE list[Len(list) + idx + 1]

RECURSIVE NonEmpty(_)
NonEmpty(parts) ==
    IF parts = <<>> THEN <<>>
    ELSE (IF Head(parts) = <<>> THEN <<>> ELSE <<Head(parts)>>) \o NonEmpty(Tail(parts))

\* ------------------------------------------------------------------ state
VARIABLES
    index,          \* self.index: None or the vectors of the FAISS index
    documents,      \* self.documents: the chunk texts
    index_topic,    \* history: key of the topic self.index was built/read for
    docs_topic,     \* history: key of the topic self.documents came from
    raw_data,       \* RAW_DATA_PATH/<key>_data.txt per key
    index_file,     \* FAISS_INDEX_PATH/<key>_index.faiss per key
    docs_file,      \* FAISS_INDEX_PATH/<key>_docs.txt per key
    last,           \* history: the last operation and its outcome
    requests,       \* the get_roadmap requests of the server, by request id
    running,        \* the request whose handler occupies the event loop
    settings,       \* settings: the CHUNK_SIZE and CHUNK_OVERLAP configured
    career_agent,   \* main.career_agent: None when CareerAgent() failed
    memory_store,   \* database/memory_store.json: None or the text in the file
    clock,          \* what datetime.now() gives
    cache,          \* database/cache.json: the dict from role key to entry
    market,         \* the analyze_market requests of the server, by request id
    since_clear,    \* history: None before the first clear_data, then the
                    \* uploads and job analyses that succeeded since the last
    completed       \* history: per role key, the job count of the analysis
                    \* that completed last since the cache was cleared

vars == <<index, documents, index_topic, docs_topic, raw_data, index_file,
          docs_file, last, requests, running, settings, career_agent,
          memory_store, clock, cache,
                   market, since_clear, completed>>

\* ---------------------------------- RecursiveCharacterTextSplitter (langchain)
\* a separator list that does not end with the empty separator
SeparatorsNoChars == << <<"NL", "NL">>, <<"NL">>, <<".">>, <<" ">> >>

Separators == << <<"NL", "NL">>, <<"NL">>, <<".">>, <<" ">>, <<>> >>

\* _split_text_with_regex(text, separator, keep_separator=True)
SplitKeep(t, sep) ==
    IF sep = <<>> THEN [i \in 1..Len(t) |-> <<t[i]>>]
    ELSE LET ps == PySplit(t, sep)
         IN  NonEmpty([i \in 1..Len(ps) |-> IF i = 1 THEN ps[1] ELSE sep \o ps[i]])

\* _join_docs: the joined text stripped; <<>> stands for None
JoinDocs(cur, sep) == Strip(PyJoin(cur, sep))

SepLen(cur, sep, n) == IF Len(cur) > n THEN Len(sep) ELSE 0

\* the while loop of _merge_splits that drops the head of current_doc
RECURSIVE PopWhile(_, _, _, _)
PopWhile(cur, total, len, sep) ==
    IF total > settings.CHUNK_OVERLAP
       \/ (total + len + SepLen(cur, sep, 0) > settings.CHUNK_SIZE /\ total > 0)
    THEN PopWhile(Tail(cur), total - (Len(Head(cur)) + SepLen(cur, sep, 1)), len, sep)
    ELSE [cur |-> cur, total |-> total]

\* the for loop of _merge_splits, from split i on
RECURSIVE MergeLoop(_, _, _, _, _, _)
MergeLoop(splits, i, docs, cur, total, sep) ==
    IF i > Len(splits)
    THEN (IF JoinDocs(cur, sep) = <<>> THEN docs ELSE Append(docs, JoinDocs(cur, sep)))
    ELSE LET d == splits[i]
             over == total + Len(d) + SepLen(cur, sep, 0) > settings.CHUNK_SIZE
             flush == over /\ Len(cur) > 0
             docs2 == IF flush /\ JoinDocs(cur, sep) # <<>>
                      THEN Append(docs, JoinDocs(cur, sep)) ELSE docs
             p == IF flush THEN PopWhile(cur, total, Len(d), sep)
                  ELSE [cur |-> cur, total |-> total]
             cur2 == Append(p.cur, d)
         IN  MergeLoop(splits, i + 1, docs2, cur2,
                       p.total + Len(d) + SepLen(cur2, sep, 1), sep)

MergeSplits(splits, sep) == MergeLoop(splits, 1, <<>>, <<>>, 0, sep)

\* the separator _split_text picks: the first of the list that is "" or occurs
RECURSIVE PickSep(_, _, _)
PickSep(t, seps, i) ==
    IF i > Len(seps) THEN [sep |-> seps[Len(seps)], rest |-> <<>>]
    ELSE IF seps[i] = <<>> THEN [sep |-> <<>>, rest |-> <<>>]
    ELSE IF IndexOf(t, seps[i]) # 0
         THEN [sep |-> seps[i], rest |-> SubSeq(seps, i + 1, Len(seps))]
    ELSE PickSep(t, seps, i + 1)

RECURSIVE SplitText(_, _)
RECURSIVE SplitLoop(_, _, _, _, _)
\* the for loop of _split_text over the splits, from split i on
SplitLoop(splits, i, good, final, rest) ==
    IF i > Len(splits)
    THEN (IF good # <<>> THEN final \o MergeSplits(good, <<>>) ELSE final)
    ELSE LET s == splits[i]
         IN  IF Len(s) < settings.CHUNK_SIZE
             THEN SplitLoop(splits, i + 1, Append(good, s), final, rest)
             ELSE LET f1 == IF good # <<>> THEN final \o MergeSplits(good, <<>>) ELSE final
                      f2 == IF rest = <<>> THEN Append(f1, s) ELSE f1 \o SplitText(s, rest)
                  IN  SplitLoop(splits, i + 1, <<>>, f2, rest)

\* RecursiveCharacterTextSplitter._split_text
SplitText(t, seps) ==
    LET pk == PickSep(t, seps, 1)
    IN  SplitLoop(SplitKeep(t, pk.sep), 1, <<>>, <<>>, pk.rest)

\* CareerRetriever.split_documents: the chunks of every document, in order
RECURSIVE split_documents(_)
split_documents(docs) ==
    IF docs = <<>> THEN <<>>
    ELSE SplitText(Head(docs), Separators) \o split_documents(Tail(docs))

\* ------------------------------------------------------------ topic keys
FullStack == <<"f", " ", "s">>
MachineLearning == <<"m", "l">>
\* the career names the operations are called with
Careers == {FullStack, MachineLearning}

Lower(ch) ==
    CASE ch = "F" -> "f" [] ch = "S" -> "s" [] ch = "M" -> "m" [] ch = "L" -> "l"
      [] ch = "P" -> "p" [] ch = "D" -> "d" [] ch = "O" -> "o" [] ch = "C" -> "c"
      [] ch = "X" -> "x" [] OTHER -> ch

\* str.replace(a, b) for single characters, and str.lower()
PyReplace(t, a, b) == [i \in 1..Len(t) |-> IF t[i] = a THEN b ELSE t[i]]
PyLower(t) == [i \in 1..Len(t) |-> Lower(t[i])]

\* career.replace(" ", "_").lower(): the base name of a topic's files
TopicKey(career) ==
    [i \in 1..Len(career) |-> Lower(IF career[i] = " " THEN "_" ELSE career[i])]

Keys == {TopicKey(c) : c \in Careers}

\* load_documents with a file name that keeps the case of the career name
DocumentsFileKeyNoLower(career) == PyReplace(career, " ", "_")

\* the base name of the file each operation opens for a career name:
\* save_scraped_data, load_documents, save_index and load_index
ScraperFileKey(career) == PyLower(PyReplace(career, " ", "_"))
DocumentsFileKey(career) == PyLower(PyReplace(career, " ", "_"))
SaveIndexKey(career) == PyLower(PyReplace(career, " ", "_"))
LoadIndexKey(career) == PyLower(PyReplace(career, " ", "_"))

\* ------------------------------------------------------------- embeddings
Code(ch) ==
    CASE ch = "a" -> 1 [] ch = "b" -> 2 [] ch = " " -> 3 [] ch = "NL" -> 4
      [] ch = "D" -> 5 [] ch = "." -> 6 [] ch = "f" -> 7 [] ch = "s" -> 8
      [] ch = "m" -> 9 [] ch = "l" -> 10 [] ch = "_" -> 11 [] OTHER -> 12

RECURSIVE Weigh(_, _)
Weigh(t, i) == IF i > Len(t) THEN 0 ELSE Code(t[i]) * i + Weigh(t, i + 1)

\* embedding_model.encode of one text: a deterministic vector (one dimension)
Embed(t) == Weigh(t, 1)

\* CareerRetriever.create_embeddings: one vector per text, in order
create_embeddings(texts) == [i \in 1..Len(texts) |-> Embed(texts[i])]

\* squared L2 distance of IndexFlatL2
Dist(u, v) == (u - v) * (u - v)

\* the positions (0-based) of the stored vectors, nearest first
RECURSIVE Nearest(_, _, _)
Nearest(vecs, q, left) ==
    IF left = {} THEN <<>>
    ELSE LET best == CHOOSE i \in left : \A j \in left :
                        \/ Dist(vecs[i], q) < Dist(vecs[j], q)
                        \/ (Dist(vecs[i], q) = Dist(vecs[j], q) /\ i <= j)
         IN  <<best - 1>> \o Nearest(vecs, q, left \ {best})

\* IndexFlatL2.search(query_vector, k): k labels, -1 where nothing is left
Search(vecs, q, k) ==
    LET near == Nearest(vecs, q, 1..Len(vecs))
    IN  [i \in 1..k |-> IF i <= Len(near) THEN near[i] ELSE -1]

None == <<>>
Some(x) == <<x>>

\* the retriever and the storage as one value, which the operations map
World ==
    [index |-> index, documents |-> documents, index_topic |-> index_topic,
     docs_topic |-> docs_topic, raw_data |-> raw_data,
     index_file |-> index_file, docs_file |-> docs_file]

Commit(w) ==
    /\ index' = w.index
    /\ documents' = w.documents
    /\ index_topic' = w.index_topic
    /\ docs_topic' = w.docs_topic
    /\ raw_data' = w.raw_data
    /\ index_file' = w.index_file
    /\ docs_file' = w.docs_file

\* outcome of an operation: the world it leaves, its return value (ok for a
\* bool, out for a list of chunks), the exception it raised ("" for none),
\* the error it reported ("" for none) and the steps it went through
Outcome(w, ok, out, exc, error, did) ==
    [w |-> w, ok |-> ok, out |-> out, exc |-> exc, error |-> error, did |-> did]

\* ------------------------------------------------- CareerScraper (storage)
\* what scrape_all_sources can bring back from the web for a career
WebContents ==
    { <<"a">>,
      <<"a", "NL", "D", "NL", "b">>,
      <<"a", "b", " ", "b", "NL", "NL", "b", "a", "b", "a">> }

\* the text save_scraped_data writes: the career heading, then the contents
CombinedText(career, content) ==
    <<"NL">> \o career \o <<"NL", "NL">> \o content \o <<"NL">>

save_scraped_data(w, career, content) ==
    Outcome([w EXCEPT !.raw_data[ScraperFileKey(career)] =
                          Some(CombinedText(career, content))],
            TRUE, <<>>, "", "", {"scrape"})

\* --------------------------------------------------------- CareerRetriever
\* load_documents(career): the stripped text of the career's file, if any
load_documents(w, career) ==
    LET file == w.raw_data[DocumentsFileKey(career)]
    IN  IF file = None THEN <<>>
        ELSE IF Strip(file[1]) # <<>> THEN <<Strip(file[1])>> ELSE <<>>

\* build_index adding to the index and the chunk list it finds
build_index_append(w, career) ==
    LET docs == load_documents(w, career)
        chunks == split_documents(docs)
    IN  IF docs = <<>>
        THEN Outcome(w, TRUE, <<>>, "", "", {})
        ELSE Outcome([w EXCEPT
                        !.documents = w.documents \o chunks,
                        !.docs_topic = Some(TopicKey(career)),
                        !.index = Some((IF w.index = None THEN <<>> ELSE w.index[1])
                                       \o create_embeddings(chunks)),
                        !.index_topic = Some(TopicKey(career))],
                     TRUE, <<>>, "", "", {"build"})

build_index(w, career) ==
    LET docs == load_documents(w, career)
        chunks == split_documents(docs)
    IN  IF docs = <<>>
        THEN Outcome(w, TRUE, <<>>, "", "", {})
        ELSE Outcome([w EXCEPT !.documents = chunks,
                               !.docs_topic = Some(TopicKey(career)),
                               !.index = Some(create_embeddings(chunks)),
                               !.index_topic = Some(TopicKey(career))],
                     TRUE, <<>>, "", "", {"build"})

\* the bytes save_index writes to <key>_docs.txt
SEPARATOR == <<"NL", "D", "NL">>

RECURSIVE Manifest(_)
Manifest(docs) ==
    IF docs = <<>> THEN <<>> ELSE Head(docs) \o SEPARATOR \o Manifest(Tail(docs))

save_index(w, career) ==
    LET key == SaveIndexKey(career)
    IN  IF w.index = None
        THEN Outcome(w, TRUE, <<>>, "", "", {})
        ELSE Outcome([w EXCEPT
                        !.index_file[key] =
                            Some([ok |-> TRUE, vecs |-> w.index[1],
                                  src |-> w.index_topic]),
                        !.docs_file[key] =
                            Some([ok |-> TRUE, text |-> Manifest(w.documents),
                                  src |-> w.docs_topic])],
                     TRUE, <<>>, "", "", {"save"})

\* the chunk texts load_index takes from the text of <key>_docs.txt
RECURSIVE StripAll(_)
StripAll(parts) ==
    IF parts = <<>> THEN <<>> ELSE <<Strip(Head(parts))>> \o StripAll(Tail(parts))

ParseManifest(text) == NonEmpty(StripAll(PySplit(text, SEPARATOR)))

load_index(w, career) ==
    LET key == LoadIndexKey(career)
        ifile == w.index_file[key]
        dfile == w.docs_file[key]
    IN  IF ifile = None
        THEN Outcome(w, FALSE, <<>>, "", "", {})
        ELSE IF ~ifile[1].ok
        THEN Outcome(w, FALSE, <<>>, "RuntimeError", "", {"read_index"})
        ELSE LET w1 == [w EXCEPT !.index = Some(ifile[1].vecs),
                                 !.index_topic = ifile[1].src]
             IN  IF dfile = None \/ ~dfile[1].ok
                 THEN Outcome(w1, FALSE, <<>>, "", "", {"read_index"})
                 ELSE Outcome([w1 EXCEPT
                                 !.documents = ParseManifest(dfile[1].text),
                                 !.docs_topic = dfile[1].src],
                              TRUE, <<>>, "", "", {"read_index", "read_docs"})

\* the loop of retrieve over the labels the search returned, from label i on
RECURSIVE Collect(_, _, _)
Collect(docs, labels, i) ==
    IF i > Len(labels) THEN <<>>
    ELSE (IF labels[i] < Len(docs) THEN <<PyItem(docs, labels[i])>> ELSE <<>>)
         \o Collect(docs, labels, i + 1)

\* documents[idx] raises IndexError when idx is below -len(documents)
Raises(docs, labels) ==
    \E i \in 1..Len(labels) : labels[i] < Len(docs) /\ labels[i] < 0 - Len(docs)

\* k or settings["TOP_K_RESULTS"]
EffectiveK(k) == IF k = 0 THEN TOP_K_RESULTS ELSE k

retrieve(w, query, k) ==
    IF w.index = None
    THEN Outcome(w, TRUE, <<>>, "", "", {})
    ELSE LET labels == Search(w.index[1], Embed(query), EffectiveK(k))
         IN  IF Raises(w.documents, labels)
             THEN Outcome(w, FALSE, <<>>, "IndexError", "", {"search"})
             ELSE Outcome(w, TRUE, Collect(w.documents, labels, 1), "", "",
                          {"search"})

\* ------------------------------------------------------------ RoadmapAgent
\* career_keywords, in the order of the dict, and the default career
career_keywords ==
    << [career |-> FullStack, keywords |-> {<<"f", " ", "s">>, <<"f", "s">>}],
       [career |-> MachineLearning, keywords |-> {<<"m", "l">>}] >>

RECURSIVE FirstMatch(_, _)
FirstMatch(query, i) ==
    IF i > Len(career_keywords) THEN FullStack
    ELSE IF \E kw \in career_keywords[i].keywords : IndexOf(query, kw) # 0
         THEN career_keywords[i].career
    ELSE FirstMatch(query, i + 1)

_extract_career_name(query) == FirstMatch(query, 1)

\* ------------------------------------------------ failing input and output
\* the call that fails during one load-or-build: none, the write of the raw
\* data file, the read of the raw data file, the embedding of the chunks, or
\* the write of the manifest
Failures == {"", "write_raw", "read_raw", "embed", "write_docs"}

\* save_scraped_data when open(filepath, "w") may raise
save_scraped_data_io(w, career, content, fail) ==
    IF fail = "write_raw"
    THEN Outcome(w, FALSE, <<>>, "OSError", "", {})
    ELSE save_scraped_data(w, career, content)

\* build_index when the read in load_documents may raise (it is caught there
\* and the file gives no document) and when encode may raise (self.documents
\* is assigned by then, self.index is not)
build_index_io(w, career, fail) ==
    IF fail = "read_raw"
    THEN Outcome(w, TRUE, <<>>, "", "", {})
    ELSE IF fail = "embed" /\ load_documents(w, career) # <<>>
    THEN Outcome([w EXCEPT
                    !.documents = split_documents(load_documents(w, career)),
                    !.docs_topic = Some(TopicKey(career))],
                 FALSE, <<>>, "RuntimeError", "", {})
    ELSE build_index(w, career)

\* save_index when open(docs_file, "w") may raise: the index file is written
save_index_io(w, career, fail) ==
    IF fail = "write_docs" /\ w.index # None
    THEN Outcome([w EXCEPT !.index_file[SaveIndexKey(career)] =
                     Some([ok |-> TRUE, vecs |-> w.index[1],
                           src |-> w.index_topic])],
                 FALSE, <<>>, "OSError", "", {})
    ELSE save_index(w, career)

\* _get_or_create_index with the failure fail: an exception of a call ends it
\* there and goes on to the caller
_get_or_create_index_io(w, career, content, fail) ==
    LET l == load_index(w, career)
        s == save_scraped_data_io(l.w, career, content, fail)
        b == build_index_io(s.w, career, fail)
        v == save_index_io(b.w, career, fail)
    IN  IF l.exc # "" THEN l
        ELSE IF l.ok THEN l
        ELSE IF s.exc # "" THEN [s EXCEPT !.did = l.did \cup s.did]
        ELSE IF b.exc # "" THEN [b EXCEPT !.did = l.did \cup s.did \cup b.did]
        ELSE IF v.exc # ""
        THEN [v EXCEPT !.did = l.did \cup s.did \cup b.did \cup v.did]
        ELSE Outcome(v.w, TRUE, <<>>, "", "",
                     l.did \cup s.did \cup b.did \cup v.did)

\* load the index of the career or scrape, build and save it
_get_or_create_index(w, career, content) ==
    _get_or_create_index_io(w, career, content, "")

\* generate_roadmap without its try block: an exception leaves the function
RoadmapUncaught(g, query, llm_ok) ==
    LET r == retrieve(g.w, query, TOP_K_RESULTS)
    IN  IF g.exc # ""
        THEN Outcome(g.w, FALSE, <<>>, g.exc, "", g.did)
        ELSE IF r.exc # ""
        THEN Outcome(r.w, FALSE, <<>>, r.exc, "", g.did \cup r.did)
        ELSE IF r.out = <<>>
        THEN Outcome(r.w, FALSE, <<>>, "", "No relevant information found",
                     g.did \cup r.did)
        ELSE IF ~llm_ok
        THEN Outcome(r.w, FALSE, <<>>, "LLMError", "", g.did \cup r.did)
        ELSE Outcome(r.w, TRUE, r.out, "", "", g.did \cup r.did)

\* generate_roadmap after _get_or_create_index gave g: retrieve, the LLM, and
\* the except clause that turns every exception into an error result
Roadmap(g, query, llm_ok) ==
    LET r == retrieve(g.w, query, TOP_K_RESULTS)
    IN  IF g.exc # ""
        THEN Outcome(g.w, FALSE, <<>>, "", g.exc, g.did)
        ELSE IF r.exc # ""
        THEN Outcome(r.w, FALSE, <<>>, "", r.exc, g.did \cup r.did)
        ELSE IF r.out = <<>>
        THEN Outcome(r.w, FALSE, <<>>, "", "No relevant information found",
                     g.did \cup r.did)
        ELSE IF ~llm_ok
        THEN Outcome(r.w, FALSE, <<>>, "", "LLMError", g.did \cup r.did)
        ELSE Outcome(r.w, TRUE, r.out, "", "", g.did \cup r.did)

\* generate_roadmap(query): content is what the scraper would find on the web,
\* llm_ok whether llm.invoke answers; out holds the chunks used as context
generate_roadmap(w, query, content, llm_ok) ==
    Roadmap(_get_or_create_index(w, _extract_career_name(query), content),
            query, llm_ok)

\* generate_roadmap with the failure fail inside _get_or_create_index
generate_roadmap_io(w, query, content, llm_ok, fail) ==
    Roadmap(_get_or_create_index_io(w, _extract_career_name(query), content, fail),
            query, llm_ok)

\* ------------------------------------------- main.py: the memory store
\* {}
EmptyDict == <<>>

\* dict.get(key, default) and dict[key] = value
DictGet(m, key, default) == IF key \in DOMAIN m THEN m[key] ELSE default
DictSet(m, key, value) ==
    [x \in DOMAIN m \cup {key} |-> IF x = key THEN value ELSE m[x]]

\* {"resume_text": "", "job_description": ""}
EmptyMemory == [resume_text |-> <<>>, job_description |-> <<>>]

\* load_memory: the dict in the file; a missing file and a file that is not
\* JSON give the empty memory
load_memory(store) ==
    IF store = None THEN EmptyMemory
    ELSE IF ~store[1].json THEN EmptyMemory
    ELSE store[1].data

\* save_memory: the file holds the dict as JSON
save_memory(data) == Some([json |-> TRUE, data |-> data])

MIN_RESUME_LEN == 50
MIN_JOB_LEN == 20

\* what a request handler did: the store it leaves, the HTTP status of its
\* response, the error it reports in a 200 response ("" for none) and the
\* calls it made
Response(store, status, error, did) ==
    [store |-> store, status |-> status, error |-> error, did |-> did]

\* file.filename.split(".")[-1].lower()
FileExtension(filename) ==
    LET parts == PySplit(filename, <<".">>) IN PyLower(parts[Len(parts)])

\* an upload_resume that starts from an empty dict instead of the stored one
upload_resume_fresh(store, filename, text, extract_ok, now) ==
    IF filename = <<>> THEN Response(store, 400, "", {})
    ELSE IF FileExtension(filename) \notin {<<"p", "d", "f">>, <<"d", "o", "c", "x">>}
    THEN Response(store, 400, "", {})
    ELSE IF ~extract_ok THEN Response(store, 500, "", {"extract"})
    ELSE IF text = <<>> \/ Len(Strip(text)) < MIN_RESUME_LEN
    THEN Response(store, 400, "", {"extract"})
    ELSE LET m1 == DictSet(EmptyMemory, "resume_text", text)
             m2 == DictSet(m1, "uploaded_filename", filename)
             m3 == DictSet(m2, "upload_timestamp", now)
         IN  Response(save_memory(m3), 200, "", {"extract", "save_memory"})

\* upload_resume: text is what extract_and_clean_text gives for the file,
\* extract_ok whether it returns at all
upload_resume(store, filename, text, extract_ok, now) ==
    IF filename = <<>> THEN Response(store, 400, "", {})
    ELSE IF FileExtension(filename) \notin {<<"p", "d", "f">>, <<"d", "o", "c", "x">>}
    THEN Response(store, 400, "", {})
    ELSE IF ~extract_ok THEN Response(store, 500, "", {"extract"})
    ELSE IF text = <<>> \/ Len(Strip(text)) < MIN_RESUME_LEN
    THEN Response(store, 400, "", {"extract"})
    ELSE LET m0 == load_memory(store)
             m1 == DictSet(m0, "resume_text", text)
             m2 == DictSet(m1, "uploaded_filename", filename)
             m3 == DictSet(m2, "upload_timestamp", now)
         IN  Response(save_memory(m3), 200, "",
                      {"extract", "load_memory", "save_memory"})

\* an analyze_job that stores the description before it tests its length
analyze_job_store_first(store, job_description, now) ==
    LET m0 == load_memory(store)
        m1 == DictSet(m0, "job_description", Strip(job_description))
        m2 == DictSet(m1, "job_analysis_timestamp", now)
    IN  IF job_description = <<>> \/ Len(Strip(job_description)) < MIN_JOB_LEN
        THEN Response(save_memory(m2), 400, "", {"load_memory", "save_memory"})
        ELSE Response(save_memory(m2), 200, "", {"load_memory", "save_memory"})

\* analyze_job(job_description)
analyze_job(store, job_description, now) ==
    IF job_description = <<>> \/ Len(Strip(job_description)) < MIN_JOB_LEN
    THEN Response(store, 400, "", {})
    ELSE LET m0 == load_memory(store)
             m1 == DictSet(m0, "job_description", Strip(job_description))
             m2 == DictSet(m1, "job_analysis_timestamp", now)
         IN  Response(save_memory(m2), 200, "", {"load_memory", "save_memory"})

\* an endpoint that calls the agent without looking at the job description
AnalysisWithoutJobCheck(agent, store, prepare_ok, agent_ok) ==
    LET memory == load_memory(store)
        resume == DictGet(memory, "resume_text", <<>>)
    IN  IF agent = None THEN Response(store, 500, "", {})
        ELSE IF resume = <<>> THEN Response(store, 400, "", {"load_memory"})
        ELSE IF ~prepare_ok
        THEN Response(store, 200, "error", {"load_memory"})
        ELSE IF ~agent_ok
        THEN Response(store, 200, "error", {"load_memory", "career_agent"})
        ELSE Response(store, 200, "", {"load_memory", "career_agent"})

\* the body shared by match_resume_job, ats_optimization and
\* generate_cover_letter: prepare_ok is whether what the handler computes
\* before it calls the agent returns, agent_ok whether the agent's method and
\* the formatting of its result return
Analysis(agent, store, prepare_ok, agent_ok) ==
    LET memory == load_memory(store)
        resume == DictGet(memory, "resume_text", <<>>)
        job == DictGet(memory, "job_description", <<>>)
    IN  IF agent = None THEN Response(store, 500, "", {})
        ELSE IF resume = <<>> THEN Response(store, 400, "", {"load_memory"})
        ELSE IF job = <<>> THEN Response(store, 400, "", {"load_memory"})
        ELSE IF ~prepare_ok
        THEN Response(store, 200, "error", {"load_memory"})
        ELSE IF ~agent_ok
        THEN Response(store, 200, "error", {"load_memory", "career_agent"})
        ELSE Response(store, 200, "", {"load_memory", "career_agent"})

\* match_resume_job: compute_similarity comes before the agent
match_resume_job(agent, store, sim_ok, agent_ok) ==
    Analysis(agent, store, sim_ok, agent_ok)

ats_optimization(agent, store, agent_ok) == Analysis(agent, store, TRUE, agent_ok)

generate_cover_letter(agent, store, agent_ok) ==
    Analysis(agent, store, TRUE, agent_ok)

\* len(text.split()): the number of words of a text
WordCount(t) ==
    Cardinality({i \in 1..Len(t) :
        t[i] \notin Whitespace /\ (i = 1 \/ t[i - 1] \in Whitespace)})

\* get_stored_data: what it reports of the store
get_stored_data(store) ==
    LET memory == load_memory(store)
        resume == DictGet(memory, "resume_text", <<>>)
        job == DictGet(memory, "job_description", <<>>)
    IN  [has_resume |-> resume # <<>>,
         has_job_description |-> job # <<>>,
         resume_word_count |-> IF resume # <<>> THEN WordCount(resume) ELSE 0,
         job_word_count |-> IF job # <<>> THEN WordCount(job) ELSE 0,
         uploaded_filename |-> DictGet(memory, "uploaded_filename", "N/A"),
         upload_timestamp |-> DictGet(memory, "upload_timestamp", "N/A"),
         job_analysis_timestamp |-> DictGet(memory, "job_analysis_timestamp", "N/A"),
         status |-> IF resume # <<>> /\ job # <<>> THEN "ready" ELSE "incomplete"]

\* a clear_data that empties the resume and keeps the rest of the store
clear_data_resume_only(store) ==
    Response(save_memory(DictSet(load_memory(store), "resume_text", <<>>)),
             200, "", {"save_memory"})

\* clear_data
clear_data(store) == Response(save_memory(EmptyMemory), 200, "", {"save_memory"})

\* --------------------------------------- dataprocessing.py: TrendAnalyzer
\* role.lower().replace(" ", "_")
RoleKey(role) == PyReplace(PyLower(role), " ", "_")

\* an entry of cache.json
CacheEntry(job_count, now) == [job_count |-> job_count, last_scrape_date |-> now]

\* what analyze_trends returns; kind stands for the wording of
\* trend_description
Trend(kind, sentiment, previous_count, current_count, last_analyzed) ==
    [trend_description |-> kind, sentiment |-> sentiment,
     previous_count |-> previous_count, current_count |-> current_count,
     last_analyzed |-> last_analyzed]

\* change_percent = ((current - previous) / previous) * 100 as the fraction
\* num / den with den > 0; the float of the code compares with 10 and -10 as
\* the fraction does for every count below 3000
ChangePercent(current, previous) == [num |-> (current - previous) * 100, den |-> previous]
Above(x, n) == x.num > n * x.den
Below(x, n) == x.num < n * x.den

\* analyze_trends with the bounds themselves counted as a change
analyze_trends_inclusive(c, role, current_job_count) ==
    LET role_key == RoleKey(role)
        previous_count == IF role_key \in DOMAIN c THEN c[role_key].job_count ELSE 0
        change_percent == ChangePercent(current_job_count, previous_count)
    IN  IF role_key \in DOMAIN c /\ previous_count > 0
        THEN IF ~Below(change_percent, 10)
             THEN Trend("increase", "Growing", previous_count, current_job_count,
                        Some(c[role_key].last_scrape_date))
             ELSE IF ~Above(change_percent, -10)
             THEN Trend("decrease", "Declining", previous_count, current_job_count,
                        Some(c[role_key].last_scrape_date))
             ELSE Trend("stable", "Stable", previous_count, current_job_count,
                        Some(c[role_key].last_scrape_date))
        ELSE Trend("first", "New", 0, current_job_count, None)

\* TrendAnalyzer.analyze_trends(role, current_job_count) on the cache c
analyze_trends(c, role, current_job_count) ==
    LET role_key == RoleKey(role)
        previous_count == IF role_key \in DOMAIN c THEN c[role_key].job_count ELSE 0
        change_percent == ChangePercent(current_job_count, previous_count)
    IN  IF role_key \in DOMAIN c /\ previous_count > 0
        THEN IF Above(change_percent, 10)
             THEN Trend("increase", "Growing", previous_count, current_job_count,
                        Some(c[role_key].last_scrape_date))
             ELSE IF Below(change_percent, -10)
             THEN Trend("decrease", "Declining", previous_count, current_job_count,
                        Some(c[role_key].last_scrape_date))
             ELSE Trend("stable", "Stable", previous_count, current_job_count,
                        Some(c[role_key].last_scrape_date))
        ELSE Trend("first", "New", 0, current_job_count, None)

\* TrendAnalyzer.save_to_cache(role, job_count) at the time now
save_to_cache(c, role, job_count, now) ==
    DictSet(c, RoleKey(role), CacheEntry(job_count, now))

\* ------------------------------------- market_agent.py: analyze_market
\* an analyze_market that saves the count to the cache before the trend
analysis_saving_first(c, role, count, now) ==
    [cache |-> save_to_cache(c, role, count, now),
     trend |-> analyze_trends(save_to_cache(c, role, count, now), role, count)]

\* analyze_market from the jobs the first scrape returned to the await of
\* _fetch_live_jobs (steps 2 to 7): count is len(cleaned_data); the cache it
\* leaves and the trend it computed
analysis_to_await(c, role, count, now) ==
    [cache |-> c, trend |-> analyze_trends(c, role, count)]

\* analyze_market after _fetch_live_jobs (step 9 and the result)
analysis_after_await(c, role, count, now) == save_to_cache(c, role, count, now)

\* ---------------------------------------------------------------- actions
Queries ==
    { <<"m", "l", " ", "a", "b">>, <<"f", "s", " ", "b", "a">>,
      <<"a", "b", " ", "b", "a">> }

Log(op, career, query, k, r) ==
    last' = [op |-> op, career |-> career, query |-> query, k |-> k,
             ok |-> r.ok, out |-> r.out, exc |-> r.exc, error |-> r.error,
             did |-> r.did, docs |-> <<>>, status |-> 0]

\* a call made outside the server's request handlers
Done(op, career, query, k, r) ==
    /\ Commit(r.w)
    /\ Log(op, career, query, k, r)
    /\ UNCHANGED <<requests, running, settings, career_agent, memory_store, clock, cache,
                   market, since_clear, completed>>

SaveScrapedData(c, content) ==
    Done("save_scraped_data", c, <<>>, 0, save_scraped_data(World, c, content))

BuildIndex(c) == Done("build_index", c, <<>>, 0, build_index(World, c))

SaveIndex(c) == Done("save_index", c, <<>>, 0, save_index(World, c))

LoadIndex(c) == Done("load_index", c, <<>>, 0, load_index(World, c))

Retrieve(q, k) == Done("retrieve", <<>>, q, k, retrieve(World, q, k))

GetOrCreateIndex(c, content) ==
    Done("_get_or_create_index", c, <<>>, 0,
         _get_or_create_index(World, c, content))

GenerateRoadmap(q, content, llm_ok) ==
    Done("generate_roadmap", _extract_career_name(q), q, TOP_K_RESULTS,
         generate_roadmap(World, q, content, llm_ok))

GetOrCreateIndexIO(c, content, fail) ==
    Done("_get_or_create_index", c, <<>>, 0,
         _get_or_create_index_io(World, c, content, fail))

GenerateRoadmapIO(q, content, llm_ok, fail) ==
    Done("generate_roadmap", _extract_career_name(q), q, TOP_K_RESULTS,
         generate_roadmap_io(World, q, content, llm_ok, fail))

\* ------------------------------------------------- damage to the storage
Quiet == Outcome(World, TRUE, <<>>, "", "", {})

Front(seq) == SubSeq(seq, 1, Len(seq) - 1)

\* <key>_index.faiss becomes unreadable
CorruptIndexFile(key) ==
    /\ index_file[key] # None
    /\ index_file[key][1].ok
    /\ Done("fault", key, <<>>, 0,
            [Quiet EXCEPT !.w.index_file[key][1].ok = FALSE])

\* <key>_docs.txt becomes unreadable
CorruptManifest(key) ==
    /\ docs_file[key] # None
    /\ docs_file[key][1].ok
    /\ Done("fault", key, <<>>, 0,
            [Quiet EXCEPT !.w.docs_file[key][1].ok = FALSE])

\* <key>_docs.txt is removed
RemoveManifest(key) ==
    /\ docs_file[key] # None
    /\ Done("fault", key, <<>>, 0, [Quiet EXCEPT !.w.docs_file[key] = None])

\* <key>_docs.txt loses its last chunk
TruncateManifest(key) ==
    /\ docs_file[key] # None
    /\ docs_file[key][1].ok
    /\ ParseManifest(docs_file[key][1].text) # <<>>
    /\ Done("fault", key, <<>>, 0,
            [Quiet EXCEPT !.w.docs_file[key][1].text =
                Manifest(Front(ParseManifest(docs_file[key][1].text)))])

\* ------------------------------------------------------------ the server
MaxRequests == 2
Requests == 1..MaxRequests
MIN_QUERY_LEN == 5
ShortQuery == <<"m", "l">>

Idle == [pc |-> "idle", query |-> <<>>, career |-> <<>>, content |-> <<>>]

\* the handler as a plain def, which the framework runs on a pool of threads:
\* a request starts whatever the others are doing
LoopFreeThreaded == TRUE

\* get_roadmap is a coroutine without an await: once started it keeps the
\* event loop until it returns, and no other handler starts meanwhile
LoopFree == running = None

\* the steps of generate_roadmap that scrape, build and persist an index
BuildSteps == {"scrape", "save_raw", "build", "save"}

\* the request arrives and waits for the event loop
Arrive(r, q) ==
    /\ requests[r].pc = "idle"
    /\ requests' = [requests EXCEPT ![r] = [Idle EXCEPT !.pc = "pending", !.query = q]]
    /\ Log("arrive", <<>>, q, 0, Quiet)
    /\ UNCHANGED <<index, documents, index_topic, docs_topic, raw_data,
                   index_file, docs_file, running, settings,
                   career_agent, memory_store, clock, cache,
                   market, since_clear, completed>>

\* get_roadmap starts: the query is validated and the career extracted
Start(r) ==
    /\ requests[r].pc = "pending"
    /\ LoopFree
    /\ running' = Some(r)
    /\ requests' = [requests EXCEPT ![r] =
          IF Len(Strip(requests[r].query)) < MIN_QUERY_LEN
          THEN [requests[r] EXCEPT !.pc = "respond"]
          ELSE [requests[r] EXCEPT
                  !.pc = "load",
                  !.career = _extract_career_name(requests[r].query)]]
    /\ Log("get_roadmap", <<>>, requests[r].query, 0, Quiet)
    /\ UNCHANGED <<index, documents, index_topic, docs_topic, raw_data,
                   index_file, docs_file, settings, career_agent,
                   memory_store, clock, cache,
                   market, since_clear, completed>>

\* one call of the handler of request r: the world moves by r, the request to pc
Step(r, from, op, res, to) ==
    /\ running = Some(r)
    /\ requests[r].pc = from
    /\ Commit(res.w)
    /\ Log(op, requests[r].career, requests[r].query, 0, res)
    /\ requests' = [requests EXCEPT ![r].pc = to]
    /\ UNCHANGED <<running, settings, career_agent, memory_store, clock, cache,
                   market, since_clear, completed>>

StepLoad(r) ==
    LET l == load_index(World, requests[r].career)
    IN  Step(r, "load", "load_index", l,
             IF l.exc # "" THEN "respond" ELSE IF l.ok THEN "retrieve" ELSE "scrape")

StepScrape(r, content) ==
    /\ running = Some(r)
    /\ requests[r].pc = "scrape"
    /\ requests' = [requests EXCEPT ![r].pc = "save_raw", ![r].content = content]
    /\ Log("scrape_all_sources", requests[r].career, requests[r].query, 0, Quiet)
    /\ UNCHANGED <<index, documents, index_topic, docs_topic, raw_data,
                   index_file, docs_file, running, settings,
                   career_agent, memory_store, clock, cache,
                   market, since_clear, completed>>

StepSaveRaw(r) ==
    Step(r, "save_raw", "save_scraped_data",
         save_scraped_data(World, requests[r].career, requests[r].content), "build")

StepBuild(r) ==
    Step(r, "build", "build_index", build_index(World, requests[r].career), "save")

StepSave(r) ==
    Step(r, "save", "save_index", save_index(World, requests[r].career), "retrieve")

\* retrieve, then the prompt, the LLM and the YouTube search
StepRetrieve(r, llm_ok) ==
    LET t == retrieve(World, requests[r].query, TOP_K_RESULTS)
    IN  Step(r, "retrieve", "retrieve",
             IF t.exc = "" /\ t.out # <<>> /\ ~llm_ok
             THEN [t EXCEPT !.error = "LLMError"] ELSE t,
             "respond")

\* get_roadmap returns: the response goes out and the event loop is free
Finish(r) ==
    /\ running = Some(r)
    /\ requests[r].pc = "respond"
    /\ running' = None
    /\ requests' = [requests EXCEPT ![r].pc = "done"]
    /\ Log("respond", requests[r].career, requests[r].query, 0, Quiet)
    /\ UNCHANGED <<index, documents, index_topic, docs_topic, raw_data,
                   index_file, docs_file, settings, career_agent,
                   memory_store, clock, cache,
                   market, since_clear, completed>>

\* the analyze_market requests the server can have at a time
MaxMarketRequests == 2
MarketRequests == 1..MaxMarketRequests

\* no trend computed
NoTrend == Trend("", "", 0, 0, None)

\* a request id that is not in use
NoAnalysis == [pc |-> "idle", role |-> <<>>, count |-> 0, trend |-> NoTrend]

\* --------------------------------------------------------- specifications
\* nothing was called yet
Started ==
    [op |-> "init", career |-> <<>>, query |-> <<>>, k |-> 0, ok |-> TRUE,
     out |-> <<>>, exc |-> "", error |-> "", did |-> {}, docs |-> <<>>,
     status |-> 0]

Init ==
    /\ index = None
    /\ documents = <<>>
    /\ index_topic = None
    /\ docs_topic = None
    /\ raw_data = [key \in Keys |-> None]
    /\ index_file = [key \in Keys |-> None]
    /\ docs_file = [key \in Keys |-> None]
    /\ last = Started
    /\ requests = [r \in Requests |-> Idle]
    /\ running = None
    /\ settings = [CHUNK_SIZE |-> CHUNK_SIZE, CHUNK_OVERLAP |-> CHUNK_OVERLAP]
    /\ career_agent = Some("CareerAgent")
    /\ memory_store = None
    /\ clock = 0
    /\ cache = EmptyDict
    /\ market = [r \in MarketRequests |-> NoAnalysis]
    /\ since_clear = None
    /\ completed = EmptyDict

NextRetriever ==
    \/ \E c \in Careers, content \in WebContents : SaveScrapedData(c, content)
    \/ \E c \in Careers : BuildIndex(c)
    \/ \E c \in Careers : SaveIndex(c)
    \/ \E c \in Careers : LoadIndex(c)
    \/ \E q \in Queries, k \in 0..MaxK : Retrieve(q, k)

NextAgent ==
    \/ \E c \in Careers, content \in WebContents : GetOrCreateIndex(c, content)
    \/ \E q \in Queries, content \in WebContents, llm_ok \in BOOLEAN :
          GenerateRoadmap(q, content, llm_ok)

NextFaults ==
    \/ \E key \in Keys : CorruptIndexFile(key)
    \/ \E key \in Keys : CorruptManifest(key)
    \/ \E key \in Keys : RemoveManifest(key)
    \/ \E key \in Keys : TruncateManifest(key)

NextServer ==
    \/ \E r \in Requests, q \in Queries \cup {ShortQuery} : Arrive(r, q)
    \/ \E r \in Requests : Start(r)
    \/ \E r \in Requests : StepLoad(r)
    \/ \E r \in Requests, content \in WebContents : StepScrape(r, content)
    \/ \E r \in Requests : StepSaveRaw(r)
    \/ \E r \in Requests : StepBuild(r)
    \/ \E r \in Requests : StepSave(r)
    \/ \E r \in Requests, llm_ok \in BOOLEAN : StepRetrieve(r, llm_ok)
    \/ \E r \in Requests : Finish(r)

Next == NextRetriever \/ NextAgent

\* the retriever's operations and the agent's, called in any order
Spec == Init /\ [][Next]_vars

\* the retriever's own operations only
SpecRetriever == Init /\ [][NextRetriever]_vars

\* the agent's operations over a storage that can be damaged
SpecFaults == Init /\ [][NextAgent \/ NextFaults]_vars

\* the agent's operations when a read or a write may fail, over a storage
\* that can be damaged
\* what the scraper finds while reads and writes may fail
IOContents == { <<"a">> }

NextIO ==
    \/ \E c \in Careers, content \in IOContents, fail \in Failures :
          GetOrCreateIndexIO(c, content, fail)
    \/ \E q \in Queries, content \in IOContents, llm_ok \in BOOLEAN,
          fail \in Failures : GenerateRoadmapIO(q, content, llm_ok, fail)
    \/ \E c \in Careers : LoadIndex(c)
    \/ \E key \in Keys : CorruptIndexFile(key)
    \/ \E key \in Keys : RemoveManifest(key)

SpecIO == Init /\ [][NextIO]_vars

\* the retriever's operations called with career names in any spelling
CareerNames == Careers \cup {<<"F", " ", "S">>, <<"M", "L">>}

\* the base names a file of these careers could be given
FileKeys ==
    CareerNames \cup {PyLower(c) : c \in CareerNames}
        \cup {PyReplace(c, " ", "_") : c \in CareerNames}
        \cup {TopicKey(c) : c \in CareerNames}

InitKeys ==
    /\ index = None
    /\ documents = <<>>
    /\ index_topic = None
    /\ docs_topic = None
    /\ raw_data = [key \in FileKeys |-> None]
    /\ index_file = [key \in FileKeys |-> None]
    /\ docs_file = [key \in FileKeys |-> None]
    /\ last = Started
    /\ requests = [r \in Requests |-> Idle]
    /\ running = None
    /\ settings = [CHUNK_SIZE |-> CHUNK_SIZE, CHUNK_OVERLAP |-> CHUNK_OVERLAP]
    /\ career_agent = Some("CareerAgent")
    /\ memory_store = None
    /\ clock = 0
    /\ cache = EmptyDict
    /\ market = [r \in MarketRequests |-> NoAnalysis]
    /\ since_clear = None
    /\ completed = EmptyDict

NextKeys ==
    \/ \E c \in CareerNames, content \in IOContents : SaveScrapedData(c, content)
    \/ \E c \in CareerNames : BuildIndex(c)
    \/ \E c \in CareerNames : SaveIndex(c)
    \/ \E c \in CareerNames : LoadIndex(c)

SpecKeys == InitKeys /\ [][NextKeys]_vars

\* split_documents on any documents under any configured sizes
MaxChunkSize == 4
MaxTextLen == 5

SplitSettings ==
    {st \in [CHUNK_SIZE : 2..MaxChunkSize, CHUNK_OVERLAP : 1..MaxChunkSize] :
        st.CHUNK_OVERLAP < st.CHUNK_SIZE}

SplitTexts == UNION {[1..n -> {"a", " ", "NL", "."}] : n \in 0..MaxTextLen}

SplitInputs ==
    {<<>>} \cup {<<t>> : t \in SplitTexts}
           \cup {<<t, <<"a", ".", "a", "a", " ", "a">> >> : t \in SplitTexts}

InitSplit ==
    /\ index = None
    /\ documents = <<>>
    /\ index_topic = None
    /\ docs_topic = None
    /\ raw_data = [key \in Keys |-> None]
    /\ index_file = [key \in Keys |-> None]
    /\ docs_file = [key \in Keys |-> None]
    /\ last \in {[Started EXCEPT !.docs = docs] : docs \in SplitInputs}
    /\ requests = [r \in Requests |-> Idle]
    /\ running = None
    /\ settings \in SplitSettings
    /\ career_agent = Some("CareerAgent")
    /\ memory_store = None
    /\ clock = 0
    /\ cache = EmptyDict
    /\ market = [r \in MarketRequests |-> NoAnalysis]
    /\ since_clear = None
    /\ completed = EmptyDict

\* split_documents is given the documents
SplitDocuments ==
    /\ last' = [last EXCEPT !.op = "split_documents",
                             !.out = split_documents(last.docs)]
    /\ UNCHANGED <<index, documents, index_topic, docs_topic, raw_data,
                   index_file, docs_file, requests, running, settings,
                   career_agent, memory_store, clock, cache,
                   market, since_clear, completed>>

NextSplit == SplitDocuments

SpecSplit == InitSplit /\ [][NextSplit]_vars

\* the requests of the career analysis endpoints
MaxClock == 3

Rep(ch, n) == [i \in 1..n |-> ch]

Filenames ==
    { <<>>, <<"c", "v", ".", "P", "D", "F">>, <<"c", ".", "v", ".", "d", "o", "c", "x">>,
      <<"c", "v", ".", "d", "o", "c">> }

ResumeTexts ==
    { <<>>, Rep(" ", MIN_RESUME_LEN), Rep("r", MIN_RESUME_LEN - 1),
      Rep("r", MIN_RESUME_LEN), <<" ">> \o Rep("r", MIN_RESUME_LEN - 1) \o <<" ">> }

JobTexts ==
    { <<>>, Rep(" ", MIN_JOB_LEN), Rep("j", MIN_JOB_LEN - 1),
      <<" ">> \o Rep("j", MIN_JOB_LEN) \o <<" ">>,
      <<" ">> \o Rep("j", MIN_JOB_LEN - 1) }

\* a handler of main.py ran: the store is what it left, the rest is as it was
Handled(op, r) ==
    /\ memory_store' = r.store
    /\ last' = [Started EXCEPT !.op = op, !.status = r.status,
                                !.ok = r.status = 200 /\ r.error = "",
                                !.error = r.error, !.did = r.did]
    /\ since_clear' =
          IF op = "clear_data" /\ r.status = 200 THEN Some({})
          ELSE IF since_clear # None /\ r.status = 200
                  /\ op \in {"upload_resume", "analyze_job"}
          THEN Some(since_clear[1] \cup {op})
          ELSE since_clear
    /\ UNCHANGED <<index, documents, index_topic, docs_topic, raw_data,
                   index_file, docs_file, requests, running, settings,
                   career_agent, cache, market, completed>>

UploadResume(filename, text, extract_ok) ==
    /\ clock < MaxClock
    /\ clock' = clock + 1
    /\ Handled("upload_resume",
               upload_resume(memory_store, filename, text, extract_ok, clock))

AnalyzeJob(job_description) ==
    /\ clock < MaxClock
    /\ clock' = clock + 1
    /\ Handled("analyze_job", analyze_job(memory_store, job_description, clock))

MatchResumeJob(sim_ok, agent_ok) ==
    /\ Handled("match_resume_job",
               match_resume_job(career_agent, memory_store, sim_ok, agent_ok))
    /\ UNCHANGED clock

AtsOptimization(agent_ok) ==
    /\ Handled("ats_optimization",
               ats_optimization(career_agent, memory_store, agent_ok))
    /\ UNCHANGED clock

GenerateCoverLetter(agent_ok) ==
    /\ Handled("generate_cover_letter",
               generate_cover_letter(career_agent, memory_store, agent_ok))
    /\ UNCHANGED clock

ClearData ==
    /\ Handled("clear_data", clear_data(memory_store))
    /\ UNCHANGED clock

GetStoredData ==
    /\ last' = [Started EXCEPT !.op = "get_stored_data", !.status = 200,
                                !.did = {"load_memory"},
                                !.out = <<get_stored_data(memory_store)>>]
    /\ UNCHANGED <<index, documents, index_topic, docs_topic, raw_data,
                   index_file, docs_file, requests, running, settings,
                   career_agent, memory_store, clock, cache, market,
                   since_clear, completed>>

\* clear_all: the memory store as in clear_data, then {} to cache.json
ClearAll ==
    /\ memory_store' = save_memory(EmptyMemory)
    /\ cache' = EmptyDict
    /\ completed' = EmptyDict
    /\ since_clear' = Some({})
    /\ last' = [Started EXCEPT !.op = "clear_all", !.status = 200,
                                !.did = {"save_memory", "save_cache"}]
    /\ UNCHANGED <<index, documents, index_topic, docs_topic, raw_data,
                   index_file, docs_file, requests, running, settings,
                   career_agent, clock, market>>

\* memory_store.json is left with text that is not JSON
CorruptMemoryStore ==
    /\ memory_store # None
    /\ Handled("fault", Response(Some([json |-> FALSE, data |-> EmptyMemory]),
                                 0, "", {}))
    /\ UNCHANGED clock

\* CareerAgent() at import either gives the agent or fails and leaves None
InitMemory ==
    /\ index = None
    /\ documents = <<>>
    /\ index_topic = None
    /\ docs_topic = None
    /\ raw_data = [key \in Keys |-> None]
    /\ index_file = [key \in Keys |-> None]
    /\ docs_file = [key \in Keys |-> None]
    /\ last = Started
    /\ requests = [r \in Requests |-> Idle]
    /\ running = None
    /\ settings = [CHUNK_SIZE |-> CHUNK_SIZE, CHUNK_OVERLAP |-> CHUNK_OVERLAP]
    /\ career_agent \in {None, Some("CareerAgent")}
    /\ memory_store = None
    /\ clock = 0
    /\ cache = EmptyDict
    /\ market = [r \in MarketRequests |-> NoAnalysis]
    /\ since_clear = None
    /\ completed = EmptyDict

NextMemory ==
    \/ \E filename \in Filenames, text \in ResumeTexts, extract_ok \in BOOLEAN :
          UploadResume(filename, text, extract_ok)
    \/ \E job_description \in JobTexts : AnalyzeJob(job_description)
    \/ \E sim_ok \in BOOLEAN, agent_ok \in BOOLEAN : MatchResumeJob(sim_ok, agent_ok)
    \/ \E agent_ok \in BOOLEAN : AtsOptimization(agent_ok)
    \/ \E agent_ok \in BOOLEAN : GenerateCoverLetter(agent_ok)
    \/ ClearData
    \/ GetStoredData
    \/ ClearAll
    \/ CorruptMemoryStore

SpecMemory == InitMemory /\ [][NextMemory]_vars

\* analyze_trends on any cache entry and any current count
MaxCount == 24

MarketRoles == {<<"M", "L">>, <<"m", "l">>, <<"f", " ", "s">>}

TrendCaches ==
    {EmptyDict} \cup {DictSet(EmptyDict, <<"m", "l">>, CacheEntry(n, 0)) : n \in 0..MaxCount}

InitTrend ==
    /\ index = None
    /\ documents = <<>>
    /\ index_topic = None
    /\ docs_topic = None
    /\ raw_data = [key \in Keys |-> None]
    /\ index_file = [key \in Keys |-> None]
    /\ docs_file = [key \in Keys |-> None]
    /\ last = Started
    /\ requests = [r \in Requests |-> Idle]
    /\ running = None
    /\ settings = [CHUNK_SIZE |-> CHUNK_SIZE, CHUNK_OVERLAP |-> CHUNK_OVERLAP]
    /\ career_agent = Some("CareerAgent")
    /\ memory_store = None
    /\ clock = 1
    /\ cache \in TrendCaches
    /\ market \in {[r \in MarketRequests |->
                       IF r = 1 THEN [NoAnalysis EXCEPT !.pc = "count", !.role = role,
                                                        !.count = n]
                       ELSE NoAnalysis] : role \in MarketRoles, n \in 0..MaxCount}
    /\ since_clear = None
    /\ completed = EmptyDict

\* analyze_trends is given the role and the count of the request
AnalyzeTrends(r) ==
    /\ market[r].pc = "count"
    /\ market' = [market EXCEPT
          ![r].pc = "trend",
          ![r].trend = analyze_trends(cache, market[r].role, market[r].count)]
    /\ last' = [Started EXCEPT !.op = "analyze_trends", !.career = market[r].role]
    /\ UNCHANGED <<index, documents, index_topic, docs_topic, raw_data,
                   index_file, docs_file, requests, running, settings,
                   career_agent, memory_store, clock, cache, since_clear,
                   completed>>

NextTrend == \E r \in MarketRequests : AnalyzeTrends(r)

SpecTrend == InitTrend /\ [][NextTrend]_vars

\* concurrent analyze_market requests: a handler gives up the event loop at
\* its two awaits, the scrape of the jobs and the fetch of the live jobs
MarketCounts == {10, 12}

MarketFrame ==
    UNCHANGED <<index, documents, index_topic, docs_topic, raw_data,
                index_file, docs_file, requests, running, settings,
                career_agent, memory_store, since_clear>>

\* the request arrives and analyze_market awaits the scrape
MarketArrive(r, role) ==
    /\ market[r].pc = "idle"
    /\ market' = [market EXCEPT ![r] = [NoAnalysis EXCEPT !.pc = "scrape", !.role = role]]
    /\ last' = [Started EXCEPT !.op = "analyze_market", !.career = role]
    /\ MarketFrame
    /\ UNCHANGED <<clock, cache, completed>>

\* the scrape returned jobs: cleaning, the trend and the LLM, then the await
\* of _fetch_live_jobs; an exception of the LLM chain ends the request
MarketAnalyse(r, jobs, llm_ok) ==
    LET a == analysis_to_await(cache, market[r].role, jobs, clock)
    IN  /\ market[r].pc = "scrape"
        /\ cache' = a.cache
        /\ market' = [market EXCEPT ![r] =
              IF llm_ok
              THEN [market[r] EXCEPT !.count = jobs, !.trend = a.trend, !.pc = "live"]
              ELSE NoAnalysis]
        /\ last' = [Started EXCEPT !.op = "analyze_market_trend",
                                   !.career = market[r].role, !.k = jobs,
                                   !.out = <<a.trend>>, !.ok = llm_ok,
                                   !.status = IF llm_ok THEN 0 ELSE 500]
        /\ MarketFrame
        /\ UNCHANGED <<clock, completed>>

\* the live jobs are there: save_to_cache, and the response goes out
MarketFinish(r) ==
    /\ market[r].pc = "live"
    /\ clock < MaxClock
    /\ clock' = clock + 1
    /\ cache' = analysis_after_await(cache, market[r].role, market[r].count, clock)
    /\ completed' = DictSet(completed, RoleKey(market[r].role), market[r].count)
    /\ market' = [market EXCEPT ![r] = NoAnalysis]
    /\ last' = [Started EXCEPT !.op = "analyze_market_done",
                               !.career = market[r].role, !.k = market[r].count,
                               !.out = <<market[r].trend>>, !.status = 200]
    /\ MarketFrame

\* clear_cache: {} to cache.json
ClearCache ==
    /\ cache' = EmptyDict
    /\ completed' = EmptyDict
    /\ last' = [Started EXCEPT !.op = "clear_cache", !.status = 200]
    /\ MarketFrame
    /\ UNCHANGED <<clock, market>>

NextMarket ==
    \/ \E r \in MarketRequests, role \in MarketRoles : MarketArrive(r, role)
    \/ \E r \in MarketRequests, jobs \in MarketCounts, llm_ok \in BOOLEAN :
          MarketAnalyse(r, jobs, llm_ok)
    \/ \E r \in MarketRequests : MarketFinish(r)
    \/ ClearCache
    \/ ClearAll

SpecMarket == Init /\ [][NextMarket]_vars

\* concurrent get_roadmap requests on the server's event loop
SpecServer == Init /\ [][NextServer]_vars

\* ------------------------------------------------------------ properties
\* the retriever holds an index with one vector per chunk
Ready == index # None /\ Len(index[1]) = Len(documents)

\* the retriever holds the index and the chunks of the topic key
ReadyFor(key) ==
    index # None /\ index_topic = Some(key) /\ docs_topic = Some(key)

Count(seq, x) == Cardinality({i \in DOMAIN seq : seq[i] = x})

\* out holds every chunk of docs exactly once
EachOnce(out, docs) ==
    /\ Len(out) = Len(docs)
    /\ \A i \in DOMAIN docs : Count(out, docs[i]) = Count(docs, docs[i])

\* C1: a Ready retriever with N chunks asked for k > N chunks returns the N
\* chunks, each exactly once, and raises nothing
C1_RetrieveAllWhenKExceeds ==
    (last.op = "retrieve" /\ Ready /\ EffectiveK(last.k) > Len(documents))
        => (last.exc = "" /\ EachOnce(last.out, documents))

\* C2: retrieve on a retriever without an index fails; it does not return
\* normally with an empty list
C2_UnbuiltRetrieveFails ==
    (last.op = "retrieve" /\ index = None) => last.exc # ""

\* C3: whenever the retriever holds an index, it has as many vectors as there
\* are chunks, and vector i is the embedding of chunk i
C3_IndexMatchesChunks ==
    index # None =>
        /\ Len(index[1]) = Len(documents)
        /\ \A i \in DOMAIN documents : index[1][i] = Embed(documents[i])

\* C4: a load_index of a topic right after the save_index of that topic
\* succeeds and restores the chunk texts and the index that were saved
C4_SaveLoadRoundTrip ==
    [][(/\ last.op = "save_index"
        /\ "save" \in last.did
        /\ last'.op = "load_index"
        /\ last'.career = last.career)
       => (last'.ok /\ documents' = documents /\ index' = index)]_vars

\* C5: a build_index that found no documents leaves no index to save: the
\* save_index of that topic that follows writes no file
C5_NoDataBuildSavesNothing ==
    [][(/\ last.op = "build_index"
        /\ "build" \notin last.did
        /\ last'.op = "save_index"
        /\ last'.career = last.career)
       => (index_file' = index_file /\ docs_file' = docs_file)]_vars

\* C6: while the retriever is Ready for a topic, a load_index or build_index
\* of another topic leaves the index and the chunk list in memory unchanged
C6_OtherTopicLeavesIndex ==
    [][\A key \in Keys :
          (/\ ReadyFor(key)
           /\ last'.op \in {"load_index", "build_index"}
           /\ TopicKey(last'.career) # key)
          => (index' = index /\ documents' = documents)]_vars

\* the files of the key cannot be restored: the index or the manifest is
\* unreadable, the manifest is missing, or their counts differ
Corrupt(key) ==
    /\ index_file[key] # None
    /\ \/ ~index_file[key][1].ok
       \/ docs_file[key] = None
       \/ ~docs_file[key][1].ok
       \/ Len(ParseManifest(docs_file[key][1].text)) # Len(index_file[key][1].vecs)

\* C7: _get_or_create_index on a topic whose persisted state is corrupt raises
\* nothing and rebuilds the topic
C7_CorruptStateIsRebuilt ==
    [][\A c \in Careers :
          (/\ Corrupt(TopicKey(c))
           /\ last'.op = "_get_or_create_index"
           /\ last'.career = c)
          => (last'.exc = "" /\ "build" \in last'.did)]_vars

\* request r is scraping, building or persisting the index of its career
Building(r) == requests[r].pc \in BuildSteps

\* C8: no two requests are building the index of the same topic at once
C8_OneBuilderPerTopic ==
    \A r1, r2 \in Requests :
        (r1 # r2 /\ Building(r1) /\ Building(r2))
            => TopicKey(requests[r1].career) # TopicKey(requests[r2].career)

\* a request is building a topic while another request for that topic waits
C8_BuilderAndWaiter ==
    \E r1, r2 \in Requests :
        /\ r1 # r2
        /\ requests[r1].pc = "build"
        /\ requests[r2].pc = "pending"
        /\ _extract_career_name(requests[r2].query) = requests[r1].career

\* C9: a second _get_or_create_index of a topic, right after the first built
\* and saved it, neither scrapes nor builds and leaves the same chunks and index
C9_EnsureReadyIdempotent ==
    [][(/\ last.op = "_get_or_create_index"
        /\ {"build", "save"} \subseteq last.did
        /\ last'.op = "_get_or_create_index"
        /\ last'.career = last.career)
       => (/\ last'.ok
           /\ last'.did \cap {"scrape", "build", "save"} = {}
           /\ documents' = documents
           /\ index' = index)]_vars

\* C10: a generate_roadmap for the topic the retriever is Ready for, after an
\* earlier generate_roadmap made it so, does not read the index file again
C10_ReadyTopicNotReloaded ==
    [][(/\ last.op = "generate_roadmap"
        /\ ReadyFor(TopicKey(last.career))
        /\ last'.op = "generate_roadmap"
        /\ last'.career = last.career)
       => "read_index" \notin last'.did]_vars

\* C11: generate_roadmap raises nothing, whatever fails inside it: it returns
\* a success result or a result with success false and an error description
C11_RoadmapNeverRaises ==
    last.op = "generate_roadmap" =>
        (last.exc = "" /\ (last.ok \/ last.error # ""))

\* a generate_roadmap in which a write or the embedding raised has returned
C11_FailureReported ==
    /\ last.op = "generate_roadmap"
    /\ ~last.ok
    /\ last.error \in {"OSError", "RuntimeError"}
    /\ "read_index" \notin last.did

\* C12: a build_index of a topic right after a build_index of that topic, the
\* raw data unchanged, leaves the same index and the same chunks in the same
\* order
C12_RebuildReplaces ==
    [][(/\ last.op = "build_index"
        /\ "build" \in last.did
        /\ last'.op = "build_index"
        /\ last'.career = last.career)
       => (/\ "build" \in last'.did
           /\ index' = index
           /\ documents' = documents)]_vars

\* a topic of several chunks that was built and saved before has been built
\* again, and the index in memory is the one that was saved
C12_RebuiltSameIndex ==
    /\ last.op = "build_index"
    /\ "build" \in last.did
    /\ Len(documents) >= 2
    /\ index_file[TopicKey(last.career)] # None
    /\ index_file[TopicKey(last.career)][1].src = Some(TopicKey(last.career))
    /\ index_file[TopicKey(last.career)][1].vecs = index[1]

\* out holds chunks at positions of the index, the vectors at these positions
\* being in the order of ascending distance to the query q
NearestFirst(out, q) ==
    \E p \in [1..Len(out) -> 1..Len(documents)] :
        /\ \A i \in 1..Len(out) : out[i] = documents[p[i]]
        /\ \A i, j \in 1..Len(out) :
              i < j => Dist(index[1][p[i]], Embed(q)) <= Dist(index[1][p[j]], Embed(q))

\* C13: retrieve on a Ready retriever returns at most k chunks, each the chunk
\* at a position the search returned, nearest first
C13_RetrieveNearestFirst ==
    (last.op = "retrieve" /\ Ready) =>
        /\ last.exc = ""
        /\ Len(last.out) <= EffectiveK(last.k)
        /\ NearestFirst(last.out, last.query)

\* t begins with the text p
StartsWith(t, p) == Len(p) <= Len(t) /\ SubSeq(t, 1, Len(p)) = p

\* C14: for every spelling of a career name, the raw data file that
\* save_scraped_data wrote is the one load_documents reads, and the index file
\* that save_index wrote is the one load_index reads
C14_SameFileForCareer ==
    /\ last.op = "save_scraped_data" =>
          /\ load_documents(World, last.career) # <<>>
          /\ StartsWith(load_documents(World, last.career)[1], last.career)
    /\ (last.op = "save_index" /\ "save" \in last.did) =>
          /\ load_index(World, last.career).ok
          /\ load_index(World, last.career).w.index = index
          /\ load_index(World, last.career).w.documents =
                 ParseManifest(Manifest(documents))

\* an index was saved under a career name with capitals and a space, after
\* the raw data of a career was saved under such a name
C14_SavedUnderSpelling ==
    /\ last.op = "save_index"
    /\ "save" \in last.did
    /\ last.career = <<"F", " ", "S">>
    /\ raw_data[<<"m", "l">>] # None
    /\ StartsWith(Strip(raw_data[<<"m", "l">>][1]), <<"M", "L">>)

\* C15: under every chunk_size and chunk_overlap with 0 < chunk_overlap <
\* chunk_size, no chunk that split_documents returns is longer than chunk_size,
\* and for no documents it returns no chunks
C15_ChunksWithinSize ==
    last.op = "split_documents" =>
        /\ \A i \in 1..Len(last.out) : Len(last.out[i]) <= settings.CHUNK_SIZE
        /\ last.docs = <<>> => last.out = <<>>

\* a document longer than chunk_size was split into several chunks, one of
\* them of exactly chunk_size characters
C15_LongDocumentSplit ==
    /\ last.op = "split_documents"
    /\ Len(last.docs) = 1
    /\ Len(last.docs[1]) > settings.CHUNK_SIZE
    /\ settings.CHUNK_OVERLAP >= 2
    /\ Len(last.out) >= 2
    /\ \E i \in 1..Len(last.out) : Len(last.out[i]) = settings.CHUNK_SIZE

\* C16: the chunks a generate_roadmap call used as context come from the
\* documents of the career detected in its query, whatever failed in the call
C16_ContextFromDetectedCareer ==
    (last.op = "generate_roadmap" /\ last.out # <<>>) =>
        docs_topic = Some(TopicKey(_extract_career_name(last.query)))

\* C17: the index file and the manifest file stored under a topic's key hold
\* vectors and chunks built from that topic's own documents
C17_FilesHoldOwnTopic ==
    \A key \in Keys :
        /\ index_file[key] # None => index_file[key][1].src = Some(key)
        /\ docs_file[key] # None => docs_file[key][1].src = Some(key)

\* C18: a load_index call that returns False leaves the index and the chunk
\* list in memory as they were before the call
C18_FailedLoadChangesNothing ==
    [][(last'.op = "load_index" /\ ~last'.ok /\ last'.exc = "")
       => (index' = index /\ documents' = documents)]_vars

\* C19: _get_or_create_index returns True only with an index and a chunk list
\* of that career in memory
C19_TrueOnlyWhenReady ==
    (last.op = "_get_or_create_index" /\ last.ok /\ last.exc = "") =>
        (ReadyFor(TopicKey(last.career)) /\ Ready)

\* the three endpoints that hand the stored resume and job to the career agent
AnalysisEndpoints == {"match_resume_job", "ats_optimization", "generate_cover_letter"}

\* the memory store holds a non-empty resume_text and job_description
HoldsBoth ==
    /\ DictGet(load_memory(memory_store), "resume_text", <<>>) # <<>>
    /\ DictGet(load_memory(memory_store), "job_description", <<>>) # <<>>

\* C20 as stated: the three endpoints call the career agent only when the
\* store holds both texts, and with either empty the response is a 400 and the
\* agent is not called
C20_AgentOnlyWithBoth ==
    last.op \in AnalysisEndpoints =>
        /\ "career_agent" \in last.did => HoldsBoth
        /\ ~HoldsBoth => (last.status = 400 /\ "career_agent" \notin last.did)

\* C20 amended: the three endpoints call the career agent only when the store
\* holds both texts; with either empty the agent is not called and the
\* response is a 400 when the career agent was initialised at startup and a
\* 500 when it was not
C20_AgentOnlyWithBothOr500 ==
    last.op \in AnalysisEndpoints =>
        /\ "career_agent" \in last.did => HoldsBoth
        /\ ~HoldsBoth =>
              /\ "career_agent" \notin last.did
              /\ last.status = IF career_agent = None THEN 500 ELSE 400

\* a request was rejected with 400 while the store held a resume and no job
C20_RejectedWithoutJob ==
    /\ last.op \in AnalysisEndpoints
    /\ last.status = 400
    /\ career_agent # None
    /\ DictGet(load_memory(memory_store), "resume_text", <<>>) # <<>>
    /\ DictGet(load_memory(memory_store), "job_description", <<>>) = <<>>

\* C21: right after clear_data the store holds exactly an empty resume_text
\* and an empty job_description and get_stored_data reports incomplete; from
\* then on every request to the three analysis endpoints is rejected without a
\* call of the agent until an upload_resume and an analyze_job have both
\* succeeded
C21_ClearedUntilBoth ==
    /\ last.op = "clear_data" =>
          /\ memory_store # None
          /\ load_memory(memory_store) = EmptyMemory
          /\ get_stored_data(memory_store).status = "incomplete"
    /\ (/\ since_clear # None
        /\ since_clear # Some({"upload_resume", "analyze_job"})
        /\ last.op \in AnalysisEndpoints)
       => (last.status \in {400, 500} /\ "career_agent" \notin last.did)

\* after a clear_data and a successful upload_resume, with no job analysed
\* since, a request to an analysis endpoint was rejected by an initialised agent
C21_RejectedAfterClear ==
    /\ since_clear = Some({"upload_resume"})
    /\ last.op \in AnalysisEndpoints
    /\ last.status = 400
    /\ career_agent # None
    /\ DictGet(load_memory(memory_store), "resume_text", <<>>) # <<>>

\* the entry of the memory store under a key: None when there is none
Entry(store, key) ==
    IF key \in DOMAIN load_memory(store) THEN Some(load_memory(store)[key]) ELSE None

MemoryKeys ==
    {"resume_text", "job_description", "uploaded_filename", "upload_timestamp",
     "job_analysis_timestamp"}

\* the entries under the keys are the same before and after the step
SameEntries(keys) ==
    \A key \in keys : Entry(memory_store', key) = Entry(memory_store, key)

\* C22: a successful upload_resume changes no entry of the store but
\* resume_text, uploaded_filename and upload_timestamp, and a successful
\* analyze_job none but job_description and job_analysis_timestamp, in every
\* order of the requests
C22_UploadAndJobKeepApart ==
    [][/\ (last'.op = "upload_resume" /\ last'.status = 200) =>
             /\ SameEntries({"job_description", "job_analysis_timestamp"})
             /\ Entry(memory_store', "resume_text") # Some(<<>>)
             /\ Entry(memory_store', "upload_timestamp") = Some(clock)
       /\ (last'.op = "analyze_job" /\ last'.status = 200) =>
             /\ SameEntries({"resume_text", "uploaded_filename", "upload_timestamp"})
             /\ Entry(memory_store', "job_description") # Some(<<>>)
             /\ Entry(memory_store', "job_analysis_timestamp") = Some(clock)
      ]_vars

\* a resume was uploaded at time 2 into a store that holds a job analysed at
\* time 1
C22_UploadBesideJob ==
    /\ last.op = "upload_resume"
    /\ last.status = 200
    /\ Entry(memory_store, "job_description") \notin {None, Some(<<>>)}
    /\ Entry(memory_store, "job_analysis_timestamp") = Some(1)
    /\ Entry(memory_store, "upload_timestamp") = Some(2)

\* C23: an upload_resume or an analyze_job that is rejected with a 400 leaves
\* the memory store as it was
C23_RejectedLeavesStore ==
    [][(last'.op \in {"upload_resume", "analyze_job"} /\ last'.status = 400)
       => memory_store' = memory_store]_vars

\* an analyze_job was rejected while the store held a resume and a job
C23_RejectedWithStoredData ==
    /\ last.op = "analyze_job"
    /\ last.status = 400
    /\ HoldsBoth

\* the job count of the cache entry of a role: 0 when there is no entry
PreviousCount(role) ==
    IF RoleKey(role) \in DOMAIN cache THEN cache[RoleKey(role)].job_count ELSE 0

\* C25: from a previous count p > 0 to the current count c the sentiment is
\* Growing exactly when c - p is more than a tenth of p, Declining exactly
\* when it is less than minus a tenth of p and Stable otherwise; without an
\* entry or with a previous count of 0 it is New with previous_count 0
C25_TrendClassification ==
    \A r \in MarketRequests :
        market[r].pc = "trend" =>
            LET t == market[r].trend
                c == market[r].count
                p == PreviousCount(market[r].role)
            IN  IF p > 0
                THEN /\ t.previous_count = p
                     /\ t.sentiment = "Growing" <=> 10 * (c - p) > p
                     /\ t.sentiment = "Declining" <=> 10 * (c - p) < -p
                     /\ t.sentiment = "Stable" <=>
                            (10 * (c - p) <= p /\ 10 * (c - p) >= -p)
                ELSE t.sentiment = "New" /\ t.previous_count = 0

\* a rise of exactly 10% was classified: from 10 jobs to 11
C25_ExactlyTenPercent ==
    /\ market[1].pc = "trend"
    /\ PreviousCount(market[1].role) = 10
    /\ market[1].count = 11
    /\ market[1].trend.sentiment = "Stable"

\* the job count of the analysis of a role key that completed last: 0 when
\* none did since the cache was cleared
LastCompleted(key) == IF key \in DOMAIN completed THEN completed[key] ELSE 0

====
